---- MODULE Spec2Model ----
(***************************************************************************)
(* Single-instruction x86-64 decoder: struct State of src/src/state.h.     *)
(*                                                                         *)
(* One State object is built over a byte buffer (objectSource) and the     *)
(* driver calls decodeSingleInstruction(startIdx) on it, possibly several  *)
(* times.  Every pipeline stage of decodeSingleInstruction is one action;  *)
(* pc is the position inside the call.  Indices are the C++ 0-based ones:  *)
(* C++ objectSource[i] is objectSource[i + 1] here.                        *)
(*                                                                         *)
(* modrm.h and table.h are not part of the sources at hand: struct REX,    *)
(* ModRM, SIB, the register tables, the operand predicates and the         *)
(* OP_LOOKUP / OPERAND_LOOKUP tables are modelled from the design text.    *)
(***************************************************************************)
EXTENDS Integers, Sequences, FiniteSets, TLC

VARIABLES
    objectSource,           \* const std::vector<unsigned char>&
    callsLeft,              \* driver: calls of decodeSingleInstruction still to come
    pc,                     \* position inside decodeSingleInstruction
    startIdx,               \* argument of the running / last call
    hasREX, hasSIB, hasDisp8, hasDisp32,
    curIdx, instructionLen, prefixOffset,
    prefixInstructionByte, opcodeByte, modrmByte, sibByte,
    mnemonic, prefix, rex, modrm, sib,
    opEnc, remOps, operands,
    disp8, disp32,
    assemblyInstruction, assemblyOperands,
    opPos,                  \* range-for position in `operands` (state.h:262)
    result,                 \* the returned tuple, or NoResult
    error,                  \* the std::runtime_error thrown, or "none"
    peekIdx,                \* index read by the ModR/M look-ahead of this call, or -1
    readMax,                \* highest index read by this call, or -1
    oobRead,                \* this call read an index >= objectSource.size()
    ref                     \* outcome of the first call made on this State

flags   == <<hasREX, hasSIB, hasDisp8, hasDisp32>>
cursor  == <<curIdx, instructionLen>>
pbytes  == <<prefixInstructionByte, prefixOffset>>
obytes  == <<opcodeByte, modrmByte, sibByte>>
lookup  == <<mnemonic, opEnc, remOps, operands>>
structs == <<rex, modrm, sib>>
disps   == <<disp8, disp32>>
asm     == <<assemblyInstruction, assemblyOperands>>
reads   == <<peekIdx, readMax, oobRead>>
driver  == <<objectSource, callsLeft, startIdx, ref>>

vars == <<objectSource, callsLeft, pc, startIdx, hasREX, hasSIB, hasDisp8,
          hasDisp32, curIdx, instructionLen, prefixOffset,
          prefixInstructionByte, opcodeByte, modrmByte, sibByte, mnemonic,
          prefix, rex, modrm, sib, opEnc, remOps, operands, disp8, disp32,
          assemblyInstruction, assemblyOperands, opPos, result, error,
          peekIdx, readMax, oobRead, ref>>

-----------------------------------------------------------------------------
(* Bounds of the model.                                                    *)

\* longest buffer handed to a fresh State (single call)
MaxLen == 6
\* calls made on one State in the multi-call scenarios
MaxCalls == 3

-----------------------------------------------------------------------------
(* Small arithmetic and string helpers.                                    *)

Size == Len(objectSource)

Max(a, b) == IF a >= b THEN a ELSE b

Min(a, b) == IF a <= b THEN a ELSE b

HexDigits == <<"0", "1", "2", "3", "4", "5", "6", "7",
               "8", "9", "a", "b", "c", "d", "e", "f">>

\* ss << std::hex << std::setw(2) << std::setfill('0') << static_cast<int>(x)
Hex2(x) == HexDigits[(x \div 16) + 1] \o HexDigits[(x % 16) + 1]

RECURSIVE HexAll(_)
\* "for (unsigned char x : v) ss << ..." over a byte vector
HexAll(v) == IF v = <<>> THEN "" ELSE Hex2(Head(v)) \o HexAll(Tail(v))

\* std::reverse left out
ReverseNot(v) == v

RECURSIVE Reverse(_)
\* std::reverse
Reverse(v) == IF v = <<>> THEN <<>> ELSE Append(Reverse(Tail(v)), Head(v))

RECURSIVE Dec(_)
\* std::to_string of a non-negative integer
Dec(n) == IF n < 10 THEN HexDigits[n + 1]
          ELSE Dec(n \div 10) \o HexDigits[(n % 10) + 1]

RECURSIVE JoinSp(_)
\* "for (std::string& a : v) s += " " + a;"
JoinSp(v) == IF v = <<>> THEN "" ELSE " " \o Head(v) \o JoinSp(Tail(v))

-----------------------------------------------------------------------------
(* constants.h                                                             *)

\* enum class Prefix
Prefixes == {"NONE", "P66", "REXW", "REX"}

\* const std::unordered_set<int> PREFIX_INSTRUCTIONS_BYTES_SET
PREFIX_INSTRUCTIONS_BYTES_SET == {15, 240, 242, 243}

\* inline bool hasModrm(OpEnc openc)
hasModrm(openc) == openc \in {"M", "MI", "M1", "MR", "RM", "RMI"}

\* inline std::string to_string(Operand opu): al, ax, rax, imm64 have no case
OperandToString(opu) ==
    IF opu \in {"one", "imm8", "imm16", "imm32", "reg", "rm", "eax", "moff"}
    THEN opu ELSE "unknown"

\* inline std::string to_string(Mnemonic mnemonic): the enumerator's name
MnemonicToString(m) == m

\* the value-initialised Mnemonic that unordered_map::operator[] inserts:
\* the first enumerator
DefaultMnemonic == "MOV"

-----------------------------------------------------------------------------
(* modrm.h (not in the sources at hand): REX, ModRM, SIB, register tables. *)

REGISTERS32 == <<"eax", "ecx", "edx", "ebx", "esp", "ebp", "esi", "edi",
                 "r8d", "r9d", "r10d", "r11d", "r12d", "r13d", "r14d", "r15d">>

REGISTERS64 == <<"rax", "rcx", "rdx", "rbx", "rsp", "rbp", "rsi", "rdi",
                 "r8", "r9", "r10", "r11", "r12", "r13", "r14", "r15">>

REGISTERS16 == <<"ax", "cx", "dx", "bx", "sp", "bp", "si", "di",
                 "r8w", "r9w", "r10w", "r11w", "r12w", "r13w", "r14w", "r15w">>

REGISTERS8 == <<"al", "cl", "dl", "bl", "ah", "ch", "dh", "bh",
                "r8b", "r9b", "r10b", "r11b", "r12b", "r13b", "r14b", "r15b">>

\* REX(byte): 0100|W|R|X|B
REX(b) == [rexW |-> (b \div 8) % 2 = 1, rexR |-> (b \div 4) % 2 = 1,
           rexX |-> (b \div 2) % 2 = 1, rexB |-> b % 2 = 1]

\* a default-constructed REX
NoREX == [rexW |-> FALSE, rexR |-> FALSE, rexX |-> FALSE, rexB |-> FALSE]

\* getRegVal(modrmByte): bits 5..3
getRegVal(b) == (b \div 8) % 8

Ext(bit) == IF bit THEN 8 ELSE 0

\* ModRM(modrmByte, rex)
ModRM(b, r) ==
    LET mod == b \div 64
        rm  == b % 8
        sb  == mod # 3 /\ rm = 4
    IN [modByte |-> mod, regByte |-> getRegVal(b), rmByte |-> rm,
        hasSib |-> sb,
        hasDisp8 |-> mod = 1 /\ ~sb,
        hasDisp32 |-> (mod = 2 /\ ~sb) \/ (mod = 0 /\ rm = 5),
        rex |-> r]

\* a default-constructed ModRM
NoModRM == ModRM(0, NoREX)

\* SIB(sibByte, modByte, rex)
SIB(b, mod, r) ==
    LET base == b % 8
    IN [scaleByte |-> b \div 64, indexByte |-> (b \div 8) % 8, baseByte |-> base,
        modByte |-> mod,
        hasDisp8 |-> mod = 1,
        hasDisp32 |-> mod = 2 \/ (mod = 0 /\ base = 5),
        rex |-> r]

\* a default-constructed SIB
NoSIB == SIB(0, 0, NoREX)

\* const std::vector<int> SCALE_FACTOR = {1, 2, 4, 8}  (constants.h:446)
SCALE_FACTOR == <<1, 2, 4, 8>>

\* register name of the width the REX.W bit selects
RegName(i, r) == IF r.rexW THEN REGISTERS64[i + 1] ELSE REGISTERS32[i + 1]

\* ModRM::getReg(operand): regExt = reg + 8 * REX.R
getReg(m, operand) == RegName(m.regByte + Ext(m.rex.rexR), m.rex)

\* ModRM::getAddrMode(operand, disp8, disp32): rmExt = rm + 8 * REX.B
getAddrMode(m, operand, d8, d32) ==
    LET rmExt == m.rmByte + Ext(m.rex.rexB)
        r64   == REGISTERS64[rmExt + 1]
    IN CASE m.modByte = 3 -> RegName(rmExt, m.rex)
         [] m.modByte = 0 /\ m.rmByte = 5 -> d32
         [] m.modByte = 0 -> "[" \o r64 \o "]"
         [] m.modByte = 1 -> "[" \o r64 \o " + " \o d8 \o "]"
         [] OTHER -> "[" \o r64 \o " + " \o d32 \o "]"

\* SIB::getAddr(operand, disp8, disp32)
getAddr(s, operand, d8, d32) ==
    LET noIndex == s.indexByte = 4 /\ ~s.rex.rexX
        noBase  == s.baseByte = 5 /\ s.modByte = 0
        idx  == REGISTERS64[s.indexByte + Ext(s.rex.rexX) + 1] \o " * "
                \o Dec(SCALE_FACTOR[s.scaleByte + 1])
        base == REGISTERS64[s.baseByte + Ext(s.rex.rexB) + 1]
        disp == CASE s.modByte = 1 -> d8
                  [] s.modByte = 2 \/ noBase -> d32
                  [] OTHER -> ""
        terms == (IF disp = "" THEN <<>> ELSE <<disp>>)
                 \o (IF noBase THEN <<>> ELSE <<base>>)
                 \o (IF noIndex THEN <<>> ELSE <<idx>>)
    IN IF Len(terms) = 1 /\ disp # "" THEN disp
       ELSE IF Len(terms) = 1 THEN "[" \o terms[1] \o "]"
       ELSE IF Len(terms) = 2 THEN "[" \o terms[1] \o " + " \o terms[2] \o "]"
       ELSE "[" \o terms[1] \o " + " \o terms[2] \o " + " \o terms[3] \o "]"

\* operand predicates
isA_REG(o) == o \in {"al", "ax", "eax", "rax"}
isRM(o)    == o = "rm"
isREG(o)   == o = "reg"
isIMM(o)   == o \in {"imm8", "imm16", "imm32", "imm64"}
is8Bit(o)  == FALSE
is16Bit(o) == FALSE
is32Bit(o) == o = "reg"
is64Bit(o) == FALSE

-----------------------------------------------------------------------------
(* table.h (not in the sources at hand): the encoding tables, restricted   *)
(* to the rows the design text and the tests exercise.  Key -1 of a row is *)
(* the wildcard entry.                                                     *)

TWO_BYTES_OPCODE_PREFIX == {15}

Digits83 == (0 :> "ADD") @@ (1 :> "OR") @@ (2 :> "ADC") @@ (3 :> "SBB") @@
            (4 :> "AND") @@ (5 :> "SUB") @@ (6 :> "XOR") @@ (7 :> "CMP")

Wild(m) == (-1 :> m)

OP_LOOKUP ==
    (<<"NONE", 144>> :> Wild("NOP")) @@     \* 90
    (<<"NONE", 195>> :> Wild("RET")) @@     \* C3
    (<<"NONE", 176>> :> Wild("MOV")) @@     \* B0 ib
    (<<"NONE", 184>> :> Wild("MOV")) @@     \* B8 id
    (<<"P66", 184>> :> Wild("MOV")) @@      \* 66 B8 iw
    (<<"REXW", 184>> :> Wild("MOV")) @@     \* REX.W B8 io
    (<<"NONE", 185>> :> Wild("MOV")) @@     \* B9 id
    (<<"NONE", 161>> :> Wild("MOV")) @@     \* A1 moffs
    (<<"NONE", 5>> :> Wild("ADD")) @@       \* 05 id
    (<<"NONE", 45>> :> Wild("SUB")) @@      \* 2D id
    (<<"NONE", 1>> :> Wild("ADD")) @@       \* 01 /r
    (<<"NONE", 3>> :> Wild("ADD")) @@       \* 03 /r
    (<<"NONE", 139>> :> Wild("MOV")) @@     \* 8B /r
    (<<"REX", 139>> :> Wild("MOV")) @@      \* REX 8B /r
    (<<"NONE", 131>> :> Digits83) @@        \* 83 /digit ib
    (<<"REXW", 131>> :> Digits83) @@        \* REX.W 83 /digit ib
    (<<"NONE", 199>> :> (0 :> "MOV")) @@    \* C7 /0 id
    (<<"REXW", 199>> :> (0 :> "MOV")) @@    \* REX.W C7 /0 id
    (<<"NONE", 3972>> :> Wild("JZ")) @@     \* 0F 84 cd
    (<<"NONE", 4015>> :> Wild("IMUL"))      \* 0F AF /r

OperandRow(enc, rem, ops) == [opEnc |-> enc, remOps |-> rem, operands |-> ops]

OPERAND_LOOKUP ==
    (<<"NONE", "NOP", 144>> :> OperandRow("NP", <<>>, <<>>)) @@
    (<<"NONE", "RET", 195>> :> OperandRow("NP", <<>>, <<>>)) @@
    (<<"NONE", "MOV", 176>> :> OperandRow("OI", <<"0">>, <<"al", "imm8">>)) @@
    (<<"NONE", "MOV", 184>> :> OperandRow("OI", <<"0">>, <<"eax", "imm32">>)) @@
    (<<"P66", "MOV", 184>> :> OperandRow("OI", <<"0">>, <<"ax", "imm16">>)) @@
    (<<"REXW", "MOV", 184>> :> OperandRow("OI", <<"0">>, <<"rax", "imm64">>)) @@
    (<<"NONE", "MOV", 185>> :> OperandRow("OI", <<"1">>, <<"reg", "imm32">>)) @@
    (<<"NONE", "MOV", 161>> :> OperandRow("I", <<>>, <<"eax", "moff">>)) @@
    (<<"NONE", "ADD", 5>> :> OperandRow("I", <<>>, <<"eax", "imm32">>)) @@
    (<<"NONE", "SUB", 45>> :> OperandRow("I", <<>>, <<"eax", "imm32">>)) @@
    (<<"NONE", "ADD", 1>> :> OperandRow("MR", <<>>, <<"rm", "reg">>)) @@
    (<<"NONE", "ADD", 3>> :> OperandRow("RM", <<>>, <<"reg", "rm">>)) @@
    (<<"NONE", "MOV", 139>> :> OperandRow("RM", <<>>, <<"reg", "rm">>)) @@
    (<<"REX", "MOV", 139>> :> OperandRow("RM", <<>>, <<"reg", "rm">>)) @@
    [k \in {<<p, Digits83[d], 131>> : p \in {"NONE", "REXW"}, d \in 0..7}
        |-> OperandRow("MI", <<>>, <<"rm", "imm8">>)] @@
    (<<"NONE", "MOV", 199>> :> OperandRow("MI", <<>>, <<"rm", "imm32">>)) @@
    (<<"REXW", "MOV", 199>> :> OperandRow("MI", <<>>, <<"rm", "imm32">>)) @@
    (<<"NONE", "JZ", 3972>> :> OperandRow("D", <<>>, <<"imm32">>)) @@
    (<<"NONE", "IMUL", 4015>> :> OperandRow("RM", <<>>, <<"reg", "rm">>))

\* std::stoi(remOps[0])
Stoi(str) == CHOOSE n \in 0..15 : Dec(n) = str

-----------------------------------------------------------------------------
(* Reading the buffer.  std::vector::operator[] and iterator ranges are    *)
(* unchecked: an index >= size() is undefined behaviour.  The build either *)
(* faults (action Segfault) or yields whatever byte lies behind the        *)
(* buffer: any value of OOBValues.                                         *)

OOBValues == {0, 144}

InBounds(i) == i < Size

\* the values objectSource[i] may yield
ReadAt(i) == IF InBounds(i) THEN {objectSource[i + 1]} ELSE OOBValues

\* the bytes [first, first + n) with g behind the end of the buffer
Fetch(first, n, g) ==
    [k \in 1..n |-> IF InBounds(first + k - 1)
                    THEN objectSource[first + k] ELSE g]

\* the garbage values to consider for a read of [first, first + n)
Garbage(first, n) == IF n > 0 /\ ~InBounds(first + n - 1) THEN OOBValues ELSE {0}

NoResult == <<>>
NoRef == [idx |-> -1, out |-> <<>>, oob |-> FALSE]

\* bookkeeping of the indices a call has read
Track(lo, hi) ==
    /\ readMax' = Max(readMax, hi)
    /\ oobRead' = (oobRead \/ (hi >= lo /\ ~InBounds(hi)))

\* the outcome of the first call on this State is kept for comparison
Completed(out, oob) ==
    ref' = IF ref = NoRef THEN [idx |-> startIdx, out |-> out, oob |-> oob]
           ELSE ref

\* throw std::runtime_error(...)
Throw(what, oob) ==
    /\ pc' = "error"
    /\ error' = what
    /\ Completed(<<"error", what>>, oob)

\* Consume with the "instructionLen += n" left out
ConsumeNoLen(n) ==
    /\ instructionLen' = instructionLen
    /\ curIdx' = curIdx + n

\* Consume with "instructionLen += 1" whatever the number of bytes read
ConsumeShort(n) ==
    /\ instructionLen' = instructionLen + Min(n, 1)
    /\ curIdx' = curIdx + n

\* instructionLen += n; curIdx += n;
Consume(n) ==
    /\ instructionLen' = instructionLen + n
    /\ curIdx' = curIdx + n

-----------------------------------------------------------------------------
(* Inputs.                                                                 *)

Take(v, n) == SubSeq(v, 1, Min(n, Len(v)))

PrefixInstrParts == {<<>>, <<243>>, <<15>>}             \* -, F3, 0F
P66Parts   == {<<>>, <<102>>}                           \* -, 66
RexParts   == {<<>>, <<72>>, <<68>>}                    \* -, REX.W, REX.R
OpcodeParts == {<<144>>, <<184>>, <<1>>, <<131>>, <<139>>, <<199>>,
                <<15, 132>>, <<255>>}
ModRMParts == {<<193>>, <<200>>, <<4>>, <<68>>, <<132>>, <<5>>}
TailParts  == {<<37, 1, 2, 3, 4, 5, 6, 7, 8>>,
               <<145, 17, 34, 51, 68, 85, 102, 119, 136>>}

\* prefixes, opcode, a ModR/M byte and what may follow it
Wholes ==
    {pi \o p \o r \o o \o m \o t :
        pi \in PrefixInstrParts, p \in P66Parts, r \in RexParts,
        o \in OpcodeParts, m \in ModRMParts, t \in TailParts}

\* forms outside that grid: a moffs operand (A1), an opcode-embedded register
\* (B9), the al form (B0), and a prefix byte met where the opcode is due
\* (66 after REX, a second REX, a second F3)
Extras ==
    {<<161, 68, 51, 34, 17, 5, 6, 7, 8>>,
     <<185, 68, 51, 34, 17>>,
     <<176, 17>>,
     <<72, 102, 184, 34, 17>>,
     <<72, 68, 1, 193>>,
     <<243, 243, 144>>}

\* one instruction: whole, or cut after at most MaxLen bytes
Buffers ==
    UNION {{w} \cup {Take(w, n) : n \in 0..MaxLen} : w \in Wholes \cup Extras}

Instrs == {<<68, 1, 193>>, <<1, 193>>, <<144>>, <<255>>}

\* two instructions back to back, for several calls on one State
SeqBuffers == {a \o b : a \in Instrs, b \in Instrs}

-----------------------------------------------------------------------------
(* State::State(objectSource)                                              *)

\* The four byte fields, mnemonic and opEnc have no initialiser; init() or
\* parseOpecode() assigns each of them before its first read, so the value
\* they start with is never observed.
Init ==
    /\ \/ objectSource \in Buffers /\ callsLeft = 1
       \/ objectSource \in SeqBuffers /\ callsLeft = MaxCalls
    /\ pc = "idle"
    /\ startIdx = 0
    /\ hasREX = FALSE /\ hasSIB = FALSE /\ hasDisp8 = FALSE /\ hasDisp32 = FALSE
    /\ curIdx = 0 /\ instructionLen = 0 /\ prefixOffset = 0
    /\ prefixInstructionByte = -1 /\ opcodeByte = -1
    /\ modrmByte = -1 /\ sibByte = -1
    /\ mnemonic = DefaultMnemonic
    /\ prefix = "NONE"
    /\ rex = NoREX /\ modrm = NoModRM /\ sib = NoSIB
    /\ opEnc = "NP" /\ remOps = <<>> /\ operands = <<>>
    /\ disp8 = "" /\ disp32 = ""
    /\ assemblyInstruction = <<>> /\ assemblyOperands = <<>>
    /\ opPos = 1
    /\ result = NoResult /\ error = "none"
    /\ peekIdx = -1 /\ readMax = -1 /\ oobRead = FALSE
    /\ ref = NoRef

-----------------------------------------------------------------------------
(* decodeSingleInstruction(startIdx): init(); curIdx = startIdx;           *)

\* init() leaves mnemonic, rex, modrm, sib, opEnc, disp8 and disp32 as the
\* previous call left them.
Decode(s) ==
    /\ pc \in {"idle", "done", "error"}
    /\ callsLeft > 0
    /\ callsLeft' = callsLeft - 1
    /\ startIdx' = s
    /\ hasREX' = FALSE /\ hasSIB' = FALSE /\ hasDisp8' = FALSE /\ hasDisp32' = FALSE
    /\ curIdx' = s
    /\ instructionLen' = 0
    /\ prefixOffset' = 0
    /\ prefix' = "NONE"
    /\ prefixInstructionByte' = -1 /\ opcodeByte' = -1
    /\ modrmByte' = -1 /\ sibByte' = -1
    /\ remOps' = <<>> /\ operands' = <<>>
    /\ assemblyInstruction' = <<>> /\ assemblyOperands' = <<>>
    /\ opPos' = 1
    /\ result' = NoResult /\ error' = "none"
    /\ peekIdx' = -1 /\ readMax' = -1 /\ oobRead' = FALSE
    /\ pc' = "prefixInstr"
    /\ UNCHANGED <<objectSource, ref, mnemonic, opEnc, structs, disps>>

\* parsePrefixInstructions taking 0x66 as well
IsPrefixInstructionOr66(b) == b \in PREFIX_INSTRUCTIONS_BYTES_SET \cup {102}

\* PREFIX_INSTRUCTIONS_BYTES_SET.find(startByte) != end()
IsPrefixInstruction(b) == b \in PREFIX_INSTRUCTIONS_BYTES_SET

parsePrefixInstructions ==
    /\ pc = "prefixInstr"
    /\ \E b \in ReadAt(curIdx) :
         IF IsPrefixInstruction(b)
         THEN /\ prefixInstructionByte' = b
              /\ prefixOffset' = 1
              /\ Consume(1)
         ELSE UNCHANGED <<pbytes, cursor>>
    /\ Track(curIdx, curIdx)
    /\ pc' = "prefix"
    /\ UNCHANGED <<driver, flags, obytes, lookup, prefix, structs, disps, asm,
                   opPos, result, error, peekIdx>>

\* objectSource[curIdx] == 0x66
IsOperandSizePrefix(b) == b = 102

parsePrefix ==
    /\ pc = "prefix"
    /\ \E b \in ReadAt(curIdx) :
         IF IsOperandSizePrefix(b)
         THEN /\ prefix' = "P66"
              /\ Consume(1)
         ELSE UNCHANGED <<prefix, cursor>>
    /\ Track(curIdx, curIdx)
    /\ pc' = "rex"
    /\ UNCHANGED <<driver, flags, pbytes, obytes, lookup, structs, disps, asm,
                   opPos, result, error, peekIdx>>

\* parseREX that takes no byte for a REX prefix
IsREXByteNever(b) == FALSE

\* (objectSource[curIdx] >> 4) == 4
IsREXByte(b) == b \div 16 = 4

parseREX ==
    /\ pc = "rex"
    /\ \E b \in ReadAt(curIdx) :
         IF IsREXByte(b)
         THEN /\ hasREX' = TRUE
              /\ rex' = REX(b)
              /\ Consume(1)
              /\ prefix' = IF REX(b).rexW THEN "REXW" ELSE "REX"
         ELSE UNCHANGED <<hasREX, rex, cursor, prefix>>
    /\ Track(curIdx, curIdx)
    /\ pc' = "opcode"
    /\ UNCHANGED <<driver, hasSIB, hasDisp8, hasDisp32, pbytes, obytes, lookup,
                   modrm, sib, disps, asm, opPos, result, error, peekIdx>>

-----------------------------------------------------------------------------
(* parseOpecode                                                            *)

HasRow(p, o) == <<p, o>> \in DOMAIN OP_LOOKUP

\* (prefix, opcode) -> (reg, mnemonic), with the if / else-if chain of
\* state.h:130-147: found, the row, and the prefix the row was found under
LookupRow(p, o) ==
    IF HasRow(p, o)
    THEN [found |-> TRUE, row |-> OP_LOOKUP[<<p, o>>], prefix |-> p]
    ELSE IF p = "REXW" /\ HasRow("REX", o)
    THEN [found |-> TRUE, row |-> OP_LOOKUP[<<"REX", o>>], prefix |-> "REX"]
    ELSE IF p = "REX" /\ HasRow("NONE", o)
    THEN [found |-> TRUE, row |-> OP_LOOKUP[<<"NONE", o>>], prefix |-> "NONE"]
    ELSE [found |-> FALSE, row |-> <<>>, prefix |-> p]

\* if (curIdx < objectSource.size()) modrmByte = objectSource[curIdx];
PeekModRM(cur) == IF InBounds(cur) THEN objectSource[cur + 1] ELSE modrmByte

\* reg2mnem[-1]: operator[] inserts a value-initialised Mnemonic when the row
\* has no wildcard entry
WildcardOf(row) == IF -1 \in DOMAIN row THEN row[-1] ELSE DefaultMnemonic

\* the selection that ignores the byte after the opcode
SelectWildcardOnly(row, mb) == WildcardOf(row)

\* state.h:156-162
SelectMnemonic(row, mb) ==
    IF mb >= 0
    THEN IF getRegVal(mb) \in DOMAIN row THEN row[getRegVal(mb)]
         ELSE WildcardOf(row)
    ELSE WildcardOf(row)

\* TWO_BYTES_OPCODE_PREFIX.find(opcodeByte) != end()
IsTwoByteOpcode(b) == b \in TWO_BYTES_OPCODE_PREFIX

parseOpecode ==
    /\ pc = "opcode"
    /\ \E b1 \in ReadAt(curIdx) :
       \E b2 \in (IF IsTwoByteOpcode(b1) THEN ReadAt(curIdx + 1) ELSE {0}) :
         LET two  == IsTwoByteOpcode(b1)
             op   == IF two THEN b1 * 256 + b2 ELSE b1
             n    == IF two THEN 2 ELSE 1
             cur  == curIdx + n
             lk   == LookupRow(prefix, op)
             peek == PeekModRM(cur)
             mn   == SelectMnemonic(lk.row, peek)
             key  == <<lk.prefix, mn, op>>
         IN /\ opcodeByte' = op
            /\ Consume(n)
            /\ oobRead' = (oobRead \/ ~InBounds(cur - 1))
            /\ IF ~lk.found
               THEN /\ Throw("UnknownOpcode", oobRead \/ ~InBounds(cur - 1))
                    /\ readMax' = Max(readMax, cur - 1)
                    /\ UNCHANGED <<prefix, modrmByte, lookup, assemblyInstruction,
                                   peekIdx>>
               ELSE /\ prefix' = lk.prefix
                    /\ modrmByte' = peek
                    /\ peekIdx' = IF InBounds(cur) THEN cur ELSE peekIdx
                    /\ readMax' = Max(readMax, IF InBounds(cur) THEN cur ELSE cur - 1)
                    /\ mnemonic' = mn
                    /\ assemblyInstruction' =
                           Append(assemblyInstruction, MnemonicToString(mn))
                    /\ IF key \in DOMAIN OPERAND_LOOKUP
                       THEN /\ opEnc' = OPERAND_LOOKUP[key].opEnc
                            /\ remOps' = OPERAND_LOOKUP[key].remOps
                            /\ operands' = OPERAND_LOOKUP[key].operands
                            /\ pc' = "modrm"
                            /\ UNCHANGED <<error, ref>>
                       ELSE /\ Throw("UnknownOperandForm", oobRead \/ ~InBounds(cur - 1))
                            /\ UNCHANGED <<opEnc, remOps, operands>>
    /\ UNCHANGED <<objectSource, callsLeft, startIdx, flags, pbytes, sibByte,
                   structs, disps, assemblyOperands, opPos, result>>

-----------------------------------------------------------------------------
(* parseModRM, parseSIB                                                    *)

\* parseModRM without its "no bytes left" check
ModRMMissingNever(mb) == FALSE

\* if (modrmByte < 0) throw
ModRMMissing(mb) == mb < 0

parseModRM ==
    /\ pc = "modrm"
    /\ IF hasModrm(opEnc)
       THEN IF ModRMMissing(modrmByte)
            THEN /\ Throw("ExpectedModRM", oobRead)
                 /\ UNCHANGED <<cursor, modrm>>
            ELSE /\ Consume(1)
                 /\ modrm' = ModRM(modrmByte, rex)
                 /\ pc' = "sib"
                 /\ UNCHANGED <<error, ref>>
       ELSE /\ pc' = "sib"
            /\ UNCHANGED <<cursor, modrm, error, ref>>
    /\ UNCHANGED <<objectSource, callsLeft, startIdx, flags, pbytes, obytes,
                   lookup, prefix, rex, sib, disps, asm, opPos, result, reads>>

\* if (curIdx < objectSource.size()) sibByte = objectSource[curIdx];
PeekSIB(cur) == IF InBounds(cur) THEN objectSource[cur + 1] ELSE sibByte

parseSIB ==
    /\ pc = "sib"
    /\ IF hasModrm(opEnc) /\ modrm.hasSib
       THEN /\ sibByte' = PeekSIB(curIdx)
            /\ readMax' = IF InBounds(curIdx) THEN Max(readMax, curIdx) ELSE readMax
            /\ IF PeekSIB(curIdx) < 0
               THEN /\ Throw("ExpectedSIB", oobRead)
                    /\ UNCHANGED <<cursor, sib>>
               ELSE /\ sib' = SIB(PeekSIB(curIdx), modrm.modByte, rex)
                    /\ Consume(1)
                    /\ pc' = "disp"
                    /\ UNCHANGED <<error, ref>>
       ELSE /\ pc' = "disp"
            /\ UNCHANGED <<sibByte, readMax, cursor, sib, error, ref>>
    /\ UNCHANGED <<objectSource, callsLeft, startIdx, flags, pbytes, opcodeByte,
                   modrmByte, lookup, prefix, rex, modrm, disps, asm, opPos,
                   result, peekIdx, oobRead>>

-----------------------------------------------------------------------------
(* parseAddressOffset                                                      *)

\* parseAddressOffset without its disp8 branch
NeedsDisp8Never(enc, m, sb) == FALSE

\* the condition of the first if, state.h:210-213
NeedsDisp8(enc, m, sb) ==
    \/ hasModrm(enc) /\ m.hasDisp8
    \/ hasModrm(enc) /\ m.hasSib /\ sb.hasDisp8
    \/ hasModrm(enc) /\ m.hasSib /\ m.modByte = 1 /\ sb.baseByte = 5

\* the condition of the second if, state.h:220-223
NeedsDisp32(enc, m, sb) ==
    \/ hasModrm(enc) /\ m.hasDisp32
    \/ hasModrm(enc) /\ m.hasSib /\ sb.hasDisp32
    \/ hasModrm(enc) /\ m.hasSib /\ m.modByte \in {0, 2} /\ sb.baseByte = 5

\* bytes parseAddressOffset takes: 1 for a disp8 plus 4 for a disp32
DispBytes == <<IF NeedsDisp8(opEnc, modrm, sib) THEN 1 ELSE 0,
               IF NeedsDisp32(opEnc, modrm, sib) THEN 4 ELSE 0>>

parseAddressOffset ==
    /\ pc = "disp"
    /\ LET n8  == DispBytes[1]
           n32 == DispBytes[2]
       IN \E g \in Garbage(curIdx, n8 + n32) :
            /\ disp8' = IF n8 > 0 THEN Dec(Fetch(curIdx, 1, g)[1]) ELSE disp8
            /\ hasDisp8' = IF n8 > 0 THEN TRUE ELSE hasDisp8
            /\ disp32' = IF n32 > 0
                         THEN "0x" \o HexAll(Reverse(Fetch(curIdx + n8, 4, g)))
                         ELSE disp32
            /\ hasDisp32' = IF n32 > 0 THEN TRUE ELSE hasDisp32
            /\ Consume(n8 + n32)
            /\ Track(curIdx, curIdx + n8 + n32 - 1)
    /\ pc' = "operands"
    /\ UNCHANGED <<driver, hasREX, hasSIB, pbytes, obytes, lookup, prefix,
                   structs, asm, opPos, result, error, peekIdx>>

-----------------------------------------------------------------------------
(* Process Operands: one iteration of the loop of state.h:262-323          *)

\* immSize with the 8 of imm64 given to imm32 as well
immSizeWide(operand) ==
    CASE operand = "imm64" -> 8
      [] operand = "imm32" -> 8
      [] operand = "imm16" -> 2
      [] operand = "imm8"  -> 1
      [] OTHER -> 0

\* state.h:296-305
immSize(operand) ==
    CASE operand = "imm64" -> 8
      [] operand = "imm32" -> 4
      [] operand = "imm16" -> 2
      [] operand = "imm8"  -> 1
      [] OTHER -> 0

\* bytes the operand takes from the buffer
OperandBytes(operand) == IF isIMM(operand) THEN immSize(operand) ELSE 0

\* state.h:276-288: the register an opcode-embedded operand names
EmbeddedReg(operand, rem) ==
    CASE is8Bit(operand)  -> REGISTERS8[Stoi(rem[1]) + 1]
      [] is16Bit(operand) -> REGISTERS16[Stoi(rem[1]) + 1]
      [] is32Bit(operand) -> REGISTERS32[Stoi(rem[1]) + 1]
      [] is64Bit(operand) -> REGISTERS64[Stoi(rem[1]) + 1]
      [] OTHER -> ""

\* decodedTranslatedValue of an operand, given the immediate bytes read
Translate(operand, imm) ==
    IF isA_REG(operand) THEN OperandToString(operand)
    ELSE IF isRM(operand) \/ isREG(operand)
    THEN IF isRM(operand) /\ hasModrm(opEnc) /\ modrm.hasSib
         THEN getAddr(sib, operand, disp8, disp32)
         ELSE IF hasModrm(opEnc)
         THEN IF isRM(operand) THEN getAddrMode(modrm, operand, disp8, disp32)
              ELSE getReg(modrm, operand)
         ELSE EmbeddedReg(operand, remOps)
    ELSE IF isIMM(operand) THEN "0x" \o HexAll(Reverse(imm))
    ELSE ""

processOperand ==
    /\ pc = "operands"
    /\ opPos <= Len(operands)
    /\ LET operand == operands[opPos]
           n == OperandBytes(operand)
       IN \E g \in Garbage(curIdx, n) :
            /\ assemblyOperands' =
                   Append(assemblyOperands, Translate(operand, Fetch(curIdx, n, g)))
            /\ Consume(n)
            /\ Track(curIdx, curIdx + n - 1)
    /\ opPos' = opPos + 1
    /\ UNCHANGED <<driver, pc, flags, pbytes, obytes, lookup, prefix, structs,
                   disps, assemblyInstruction, result, error, peekIdx>>

\* state.h:325-340: join the operands and return the tuple
returnInstruction ==
    /\ pc = "operands"
    /\ opPos > Len(operands)
    /\ LET ao  == JoinSp(assemblyOperands)
           ai  == Append(assemblyInstruction, ao)
           res == <<startIdx, instructionLen, MnemonicToString(mnemonic), JoinSp(ai)>>
       IN /\ assemblyInstruction' = ai
          /\ result' = res
          /\ Completed(<<"ok", res>>, oobRead)
    /\ pc' = "done"
    /\ UNCHANGED <<objectSource, callsLeft, startIdx, flags, cursor, pbytes,
                   obytes, lookup, prefix, structs, disps, assemblyOperands,
                   opPos, error, reads>>

-----------------------------------------------------------------------------
(* An out-of-range read may also end the process.                          *)

\* the buffer ends before the opcode is complete: the next objectSource[curIdx]
\* of state.h:80, 88, 101, 117 or 123 is out of range
OpcodeUnderflow ==
    \/ pc \in {"prefixInstr", "prefix", "rex", "opcode"} /\ ~InBounds(curIdx)
    \/ pc = "opcode" /\ InBounds(curIdx) /\ ~InBounds(curIdx + 1)
         /\ IsTwoByteOpcode(objectSource[curIdx + 1])

\* fewer bytes are left than the displacement (state.h:214, 225) or the
\* immediate (state.h:306) about to be read takes
DataUnderflow ==
    \/ pc = "disp" /\ DispBytes[1] + DispBytes[2] > 0
         /\ ~InBounds(curIdx + DispBytes[1] + DispBytes[2] - 1)
    \/ pc = "operands" /\ opPos <= Len(operands)
         /\ OperandBytes(operands[opPos]) > 0
         /\ ~InBounds(curIdx + OperandBytes(operands[opPos]) - 1)

Segfault ==
    /\ OpcodeUnderflow \/ DataUnderflow
    /\ pc' = "crashed"
    /\ UNCHANGED <<driver, flags, cursor, pbytes, obytes, lookup, prefix,
                   structs, disps, asm, opPos, result, error, reads>>

-----------------------------------------------------------------------------

Next ==
    \/ \E s \in 0..Size : Decode(s)
    \/ parsePrefixInstructions
    \/ parsePrefix
    \/ parseREX
    \/ parseOpecode
    \/ parseModRM
    \/ parseSIB
    \/ parseAddressOffset
    \/ processOperand
    \/ returnInstruction
    \/ Segfault

Spec == Init /\ [][Next]_vars

-----------------------------------------------------------------------------
(* Properties.                                                             *)

\* the length the call returned (second component of the tuple)
Length == result[2]

\* the outcome of the call that has just ended
Outcome == IF pc = "done" THEN <<"ok", result>> ELSE <<"error", error>>

\* C1: whenever decodeSingleInstruction returns a result, startOffset + length
\* <= len(buffer): every byte counted in the length exists in the buffer.
C1_LengthWithinBuffer ==
    pc = "done" => startIdx + Length <= Size

\* C2: the length of every successful decode is at least 1 and at most 15.
C2_LengthBetween1And15 ==
    pc = "done" => Length >= 1 /\ Length <= 15

\* an instruction prefix, 0x66, REX.W, opcode, ModR/M, SIB, disp32 and imm32,
\* all of them bytes of the buffer: 14 bytes
C2_Witness ==
    /\ pc = "done" /\ ~oobRead
    /\ prefixOffset = 1 /\ hasREX /\ sibByte >= 0 /\ hasDisp32
    /\ operands = <<"rm", "imm32">>
    /\ Length = 14

\* C3: after every stage of decodeSingleInstruction(startIdx), instructionLen
\* = curIdx - startIdx, and the returned length is that number of bytes.
C3_LengthIsCursorAdvance ==
    /\ instructionLen = curIdx - startIdx
    /\ pc = "done" => Length = curIdx - startIdx

\* a decode from a non-zero offset that took a ModR/M, a SIB, a disp32 and an
\* operand
C3_Witness ==
    /\ pc = "done" /\ ~oobRead
    /\ startIdx > 0 /\ sibByte >= 0 /\ hasDisp32
    /\ Length = curIdx - startIdx /\ Length >= 7

\* C4 as stated: a successful decode of length L from startOffset reads no
\* buffer byte at an index >= startOffset + L.
C4_NoReadBeyondLength ==
    pc = "done" => readMax < startIdx + Length

\* C4 amended: a successful decode reads no index > startOffset + L, and index
\* startOffset + L itself only as the look-ahead of the opcode stage, for an
\* encoding form without ModR/M and without immediate bytes.
C4_OnlyLookAheadBeyondLength ==
    pc = "done" =>
        /\ readMax <= startIdx + Length
        /\ readMax = startIdx + Length =>
              /\ peekIdx = readMax
              /\ InBounds(peekIdx)
              /\ ~hasModrm(opEnc)
              /\ \A i \in 1..Len(operands) : OperandBytes(operands[i]) = 0

\* NOP followed by a byte: the byte is read and not consumed
C4_Witness ==
    /\ pc = "done" /\ opEnc = "NP"
    /\ readMax = startIdx + Length /\ peekIdx = readMax

\* C5: decoding the same offset of the same buffer twice gives the same
\* outcome, whatever the State decoded in between (reads beyond the end of
\* the buffer left aside).
C5_SameSliceSameOutcome ==
    (pc \in {"done", "error"} /\ ref.idx = startIdx /\ ~oobRead /\ ~ref.oob)
        => Outcome = ref.out

\* C6: when the buffer ends before the opcode is complete, the next step is
\* the UnexpectedEnd failure: no instruction, no read beyond the end.
C6_TruncatedOpcodeFails ==
    [][OpcodeUnderflow =>
          (pc' = "error" /\ error' = "UnexpectedEnd" /\ result' = NoResult
             /\ ~oobRead')]_vars

\* C7: when fewer bytes are left than the displacement or the immediate
\* takes, the next step is the UnexpectedEnd failure.
C7_TruncatedDataFails ==
    [][DataUnderflow =>
          (pc' = "error" /\ error' = "UnexpectedEnd" /\ result' = NoResult)]_vars

\* C8: when the encoding form has ModR/M and no byte follows the opcode, or
\* ModR/M announces a SIB and no byte follows it, the decode fails, no
\* instruction is returned and cursor and length stay where they are.
C8_MissingModRMOrSIBFails ==
    [][((pc = "modrm" /\ hasModrm(opEnc) /\ ~InBounds(curIdx))
          \/ (pc = "sib" /\ hasModrm(opEnc) /\ modrm.hasSib /\ ~InBounds(curIdx)))
        => (/\ pc' = "error"
            /\ error' = (IF pc = "modrm" THEN "ExpectedModRM" ELSE "ExpectedSIB")
            /\ result' = NoResult
            /\ curIdx' = curIdx
            /\ instructionLen' = instructionLen)]_vars

\* the buffer ended right after a ModR/M byte that announces a SIB
C8_Witness ==
    /\ pc = "error" /\ error = "ExpectedSIB"
    /\ ~oobRead /\ modrmByte >= 0 /\ sibByte < 0
    /\ curIdx = Size /\ instructionLen = curIdx - startIdx

\* the classes tried for an instruction of class p, in the order REXW, REX, NONE
FallbackChain(p) ==
    CASE p = "REXW" -> {"REXW", "REX", "NONE"}
      [] p = "REX" -> {"REX", "NONE"}
      [] OTHER -> {p}

\* C9: UnknownOpcode is raised only when OP_LOOKUP has no row for the opcode
\* under the current class nor under any later class of the chain (for an
\* opcode that was read from the buffer).
C9_UnknownOpcodeOnlyWithoutRow ==
    (pc = "error" /\ error = "UnknownOpcode" /\ ~oobRead)
        => \A c \in FallbackChain(prefix) : ~HasRow(c, opcodeByte)

\* C10: when 0x0F is the first byte of the instruction it is not taken as an
\* instruction prefix: the opcode stage takes it with the byte after it and
\* the opcode is (0x0F << 8) | second.
C10_EscapeBelongsToOpcode ==
    (/\ pc \in {"modrm", "sib", "disp", "operands", "done", "error"}
     /\ InBounds(startIdx + 1)
     /\ objectSource[startIdx + 1] = 15)
        => /\ prefixInstructionByte # 15
           /\ opcodeByte = 15 * 256 + objectSource[startIdx + 2]

-----------------------------------------------------------------------------

\* C11: parseREX takes exactly one byte iff the byte at the cursor has high
\* nibble 4; it then sets the class to REXW when bit W is set and to REX
\* otherwise, whatever the class was; for any other byte it takes nothing
\* and the class stays the NONE or P66 the prefix stage left.
C11_REXConsumedIffHighNibble4 ==
    [][(pc = "rex" /\ InBounds(curIdx)) =>
          LET b == objectSource[curIdx + 1]
          IN IF b \div 16 = 4
             THEN /\ curIdx' = curIdx + 1
                  /\ instructionLen' = instructionLen + 1
                  /\ hasREX'
                  /\ prefix' = IF (b \div 8) % 2 = 1 THEN "REXW" ELSE "REX"
             ELSE /\ curIdx' = curIdx
                  /\ instructionLen' = instructionLen
                  /\ ~hasREX'
                  /\ prefix' = prefix
                  /\ prefix \in {"NONE", "P66"}]_vars

\* 66 48 ...: the REX.W byte has been taken and REXW has replaced P66
C11_Witness ==
    /\ pc = "opcode" /\ ~oobRead
    /\ curIdx >= startIdx + 2
    /\ objectSource[curIdx - 1] = 102 /\ objectSource[curIdx] = 72
    /\ hasREX /\ prefix = "REXW"

\* mod and rm of the ModR/M byte, base of the SIB byte
ModOf(b) == b \div 64
RmOf(b) == b % 8
BaseOf(b) == b % 8

\* the displacement bytes the truth table gives for a ModR/M byte mb and,
\* when a SIB follows it, the SIB byte sb
TableDisp(mb, sb) ==
    CASE ModOf(mb) = 2 -> 4
      [] ModOf(mb) = 0 /\ RmOf(mb) = 5 -> 4
      [] ModOf(mb) = 0 /\ RmOf(mb) = 4 /\ BaseOf(sb) = 5 -> 4
      [] ModOf(mb) = 1 -> 1
      [] OTHER -> 0

\* C12: the addressing bytes taken after the opcode follow the truth tables:
\* a ModR/M byte iff opEnc is one of M, MI, M1, MR, RM, RMI; a SIB byte iff
\* ModR/M is present, mod # 3 and rm = 4; a displacement of 4 bytes for
\* mod = 2, for mod = 0 with rm = 5 and for mod = 0 with a SIB of base 5, of
\* 1 byte for mod = 1, of 0 bytes otherwise; never a disp8 and a disp32.
C12_AddressingBytesFollowTables ==
    [][LET present == opEnc \in {"M", "MI", "M1", "MR", "RM", "RMI"}
           taken   == curIdx' - curIdx
       IN /\ (pc = "modrm" /\ pc' = "sib") =>
                taken = IF present THEN 1 ELSE 0
          /\ (pc = "sib" /\ pc' = "disp") =>
                taken = IF present /\ ModOf(modrmByte) # 3 /\ RmOf(modrmByte) = 4
                        THEN 1 ELSE 0
          /\ (pc = "disp" /\ pc' = "operands") =>
                /\ taken = IF present THEN TableDisp(modrmByte, sibByte) ELSE 0
                /\ ~(hasDisp8' /\ hasDisp32')]_vars

\* ModR/M 04 (mod 0, rm 4) and SIB 25 (base 5): ModR/M, SIB and a disp32 taken
C12_Witness ==
    /\ pc = "done" /\ ~oobRead
    /\ hasModrm(opEnc) /\ modrmByte = 4 /\ sibByte = 37
    /\ hasDisp32 /\ ~hasDisp8
    /\ Length = prefixOffset + 7

\* the REX bits of the instruction being decoded: those of the byte before
\* the opcode when parseREX took one, all clear otherwise
OwnREX ==
    IF hasREX
    THEN REX(objectSource[peekIdx - (IF opcodeByte >= 256 THEN 2 ELSE 1)])
    ELSE NoREX

\* C13: a decoded instruction with ModR/M selects its registers with the R, X
\* and B bits of its own REX byte, and with all of them 0 when it has no REX
\* byte: regExt = reg + 8R, rmExt = rm + 8B, indexExt = index + 8X,
\* baseExt = base + 8B.
C13_OwnREXExtendsRegisters ==
    (pc = "done" /\ hasModrm(opEnc) /\ ~oobRead) =>
        /\ modrm.rex = OwnREX
        /\ modrm.hasSib => sib.rex = OwnREX
        /\ \A i \in 1..Len(operands) :
              operands[i] = "reg" =>
                  assemblyOperands[i] =
                      RegName(getRegVal(modrmByte) + Ext(OwnREX.rexR), OwnREX)

\* C14: the mnemonic of a "/digit" row is the row's entry for the reg field
\* (bits 5..3) of the byte right after the opcode, and the row's wildcard
\* entry when the row has no entry for that value or no byte follows; the
\* opcode stage only peeks that byte, and a later stage takes it only when
\* the encoding form has ModR/M.
C14_DigitRowSelectsByReg ==
    [][/\ (/\ pc = "opcode" /\ pc' \in {"modrm", "error"}
           /\ error' # "UnknownOpcode" /\ ~oobRead') =>
            LET row == OP_LOOKUP[<<prefix', opcodeByte'>>]
                reg == (objectSource[curIdx' + 1] \div 8) % 8
                byReg == InBounds(curIdx') /\ reg \in DOMAIN row
            IN /\ byReg => mnemonic' = row[reg]
               /\ (~byReg /\ -1 \in DOMAIN row) => mnemonic' = row[-1]
               /\ curIdx' = curIdx + (IF opcodeByte' >= 256 THEN 2 ELSE 1)
       /\ (pc = "modrm" /\ curIdx' # curIdx) =>
            (hasModrm(opEnc) /\ curIdx' = curIdx + 1)]_vars

\* 83 C8 ib: reg = 1 selects OR
C14_Witness ==
    /\ pc = "done" /\ ~oobRead
    /\ opcodeByte = 131 /\ modrmByte = 200
    /\ mnemonic = "OR" /\ result[3] = "OR"

\* bytes of an immediate operand kind
ImmWidth(o) ==
    CASE o = "imm8" -> 1
      [] o = "imm16" -> 2
      [] o = "imm32" -> 4
      [] o = "imm64" -> 8

RECURSIVE HexDown(_, _)
\* two hex digits per byte of [first, first + n), the last byte first
HexDown(first, n) ==
    IF n = 0 THEN ""
    ELSE Hex2(objectSource[first + n]) \o HexDown(first, n - 1)

\* C15: an immediate operand imm8 / imm16 / imm32 / imm64 takes N = 1 / 2 /
\* 4 / 8 bytes at the cursor and is rendered "0x" followed by 2N lowercase
\* hex digits, the last byte of the buffer first; cursor and length advance
\* by N.
C15_ImmediateLittleEndianHex ==
    [][(/\ pc = "operands" /\ opPos <= Len(operands)
        /\ operands[opPos] \in {"imm8", "imm16", "imm32", "imm64"}
        /\ InBounds(curIdx + ImmWidth(operands[opPos]) - 1)) =>
          LET N == ImmWidth(operands[opPos])
          IN /\ curIdx' = curIdx + N
             /\ instructionLen' = instructionLen + N
             /\ assemblyOperands' =
                    Append(assemblyOperands, "0x" \o HexDown(curIdx, N))]_vars

\* 48 B8 C1 25 01 02 03 04 05 06: the eight bytes of an imm64
C15_Witness ==
    /\ pc = "done" /\ ~oobRead
    /\ operands = <<"rax", "imm64">>
    /\ Length = 10
    /\ assemblyOperands[2] = "0x06050403020125c1"

\* C16: an operand of kind moff takes 4 or 8 bytes from the buffer, which
\* are added to the instruction length, and is rendered "0x" followed by
\* their hex digits (checked where the buffer holds 8 more bytes).
C16_MoffTakesFourOrEightBytes ==
    [][(/\ pc = "operands" /\ opPos <= Len(operands)
        /\ operands[opPos] = "moff" /\ InBounds(curIdx + 7)) =>
          \E N \in {4, 8} :
              /\ curIdx' = curIdx + N
              /\ instructionLen' = instructionLen + N
              /\ assemblyOperands' =
                     Append(assemblyOperands, "0x" \o HexDown(curIdx, N))]_vars

\* C17: an operand of kind al, ax, eax or rax is rendered as its own
\* lowercase name and takes no byte from the buffer.
C17_AccumulatorRendersItsName ==
    [][(/\ pc = "operands" /\ opPos <= Len(operands)
        /\ operands[opPos] \in {"al", "ax", "eax", "rax"}) =>
          /\ assemblyOperands' = Append(assemblyOperands, operands[opPos])
          /\ curIdx' = curIdx
          /\ instructionLen' = instructionLen]_vars

RECURSIVE SepBySpace(_)
\* the tokens of a non-empty list with one space between neighbours
SepBySpace(v) ==
    IF Len(v) = 1 THEN v[1] ELSE v[1] \o " " \o SepBySpace(Tail(v))

\* C18: the text of a successful decode is a space, the mnemonic and, when
\* the instruction has operands, two spaces and one non-empty token per
\* operand with single spaces between them; without operands nothing follows
\* the mnemonic.
C18_TextLayout ==
    (pc = "done" /\ ~oobRead) =>
        /\ Len(assemblyOperands) = Len(operands)
        /\ \A i \in 1..Len(assemblyOperands) : assemblyOperands[i] # ""
        /\ result[4] = " " \o result[3] \o
                           (IF operands = <<>> THEN ""
                            ELSE "  " \o SepBySpace(assemblyOperands))

\* position of a stage in the pipeline of state.h:252-323
StageRank(p) ==
    CASE p = "prefixInstr" -> 1
      [] p = "prefix" -> 2
      [] p = "rex" -> 3
      [] p = "opcode" -> 4
      [] p = "modrm" -> 5
      [] p = "sib" -> 6
      [] p = "disp" -> 7
      [] p = "operands" -> 8
      [] OTHER -> 9

\* the first byte of an opcode value
FirstOpcodeByte(o) == IF o >= 256 THEN o \div 256 ELSE o

\* C19: the stages run in the order instruction prefix, 0x66, REX, opcode,
\* ModR/M, SIB, displacement, immediates, each once, and the cursor never
\* moves back; the first stage takes at most one byte of 0F / F0 / F2 / F3
\* and leaves the class alone, the second at most one 0x66, the third at
\* most one REX byte, and whatever byte is then at the cursor (a 0x66 after
\* REX, a second REX, a second F3) is the opcode byte.
C19_StagesInOrder ==
    [][(pc' \notin {"prefixInstr", "crashed"}) =>
          LET b == objectSource[curIdx + 1]
              taken == curIdx' - curIdx
          IN /\ pc' # "error" =>
                   \/ StageRank(pc') = StageRank(pc) + 1
                   \/ pc = "operands" /\ pc' = "operands"
             /\ taken >= 0
             /\ (pc = "prefixInstr" /\ InBounds(curIdx)) =>
                   /\ taken = IF b \in {15, 240, 242, 243} THEN 1 ELSE 0
                   /\ prefix' = prefix
             /\ (pc = "prefix" /\ InBounds(curIdx)) =>
                   /\ taken = IF b = 102 THEN 1 ELSE 0
                   /\ prefix' = IF b = 102 THEN "P66" ELSE prefix
             /\ pc = "rex" => taken <= 1
             /\ (pc = "opcode" /\ InBounds(curIdx)) =>
                   /\ FirstOpcodeByte(opcodeByte') = b
                   /\ prefix' \in {prefix, "REX", "NONE"}]_vars

\* 48 66 ...: the 0x66 after the REX byte is the opcode byte
C19_Witness ==
    /\ pc = "error" /\ error = "UnknownOpcode" /\ ~oobRead
    /\ hasREX /\ prefix = "REXW"
    /\ opcodeByte = 102 /\ curIdx = startIdx + 2

\* C20: the mnemonic of a successful decode is an entry of the resolved
\* row, under the reg value of the byte after the opcode or under the
\* wildcard key; a row with neither makes the decode fail.
C20_MnemonicIsRowEntry ==
    (pc = "done" /\ ~oobRead) =>
        LET row == OP_LOOKUP[<<prefix, opcodeByte>>]
            reg == (modrmByte \div 8) % 8
        IN \/ modrmByte >= 0 /\ reg \in DOMAIN row /\ mnemonic = row[reg]
           \/ -1 \in DOMAIN row /\ mnemonic = row[-1]

====
